---------------------------- MODULE Spec2Model ----------------------------
(***************************************************************************)
(* Training KPI automation: the batch ETL (process_report.py) and the      *)
(* Streamlit dashboard (dashboard.py).                                     *)
(*                                                                         *)
(* A table (pandas DataFrame) is a sequence of records, one per row, in    *)
(* row order.  A missing cell of a numeric column (NaN) is the empty       *)
(* sequence and a present one a one-element sequence; a missing            *)
(* Department is the string NaN.  Hours and targets are integers; the      *)
(* float quotient of the KPI is the double nearest to an exact fraction,   *)
(* with the IEEE values nan, inf, -inf and -0.0 kept apart.                *)
(***************************************************************************)
EXTENDS Integers, Sequences, FiniteSets

VARIABLES
    roster,      \* rows of inputs/Employee_Roster.xlsx
    log,         \* rows of inputs/Training_Log_2025.xlsx
    goals,       \* rows of inputs/Department_Goals.xlsx
    fileState,   \* per input file: "ok", "absent" or "unreadable"
    pc,          \* position of the batch process
    runs,        \* batch runs started so far
    frames,      \* the tables the batch run has read so far, in read order
    report,      \* df_kpi_report of the current batch run
    excel,       \* outputs/Monthly_KPI_Summary_<month>.xlsx, by month
    history,     \* rows of table kpi_history in outputs/ld_database.db
    exitCode,    \* exit status of the last batch run, NotExited if none
    errorMsg,    \* which error block the last batch run printed
    dpc,         \* position of the dashboard's run_etl_pipeline() call
    dframes,     \* the tables that call has read so far, in read order
    cache,       \* st.cache_data entry of run_etl_pipeline()
    shown,       \* what the dashboard page displays
    etlRuns,     \* completed executions of run_etl_pipeline's body
    stale        \* the last render used a cache entry the files no longer give

envVars   == <<roster, log, goals, fileState>>
batchVars == <<pc, runs, frames, report, excel, history, exitCode, errorMsg>>
dashVars  == <<dpc, dframes, cache, shown, etlRuns, stale>>
vars      == <<roster, log, goals, fileState, pc, runs, frames, report, excel,
               history, exitCode, errorMsg, dpc, dframes, cache, shown, etlRuns,
               stale>>

---------------------------------------------------------------------------
(* Bounds of the model *)

MaxLog == 2
MaxRuns == 2

(* Input universe *)

Employees   == {"E1", "E2"}
Departments == {"Dept A", "Dept B"}
Targets     == {0, 4}
Durations   == {1, 2}
NaN         == "NaN"
NoVal       == << >>

Date(y, m, d) == [y |-> y, m |-> m, d |-> d]
CourseDates ==
    { Date(2024, 10, 5), Date(2025, 9, 10), Date(2025, 10, 5), Date(2025, 10, 30),
      Date(2025, 12, 1) }

FileNames == {"roster", "log", "goals"}

RosterRow(e, d)  == [Employee_ID |-> e, Department |-> d]
LogRow(e, c, h)  == [Employee_ID |-> e, Course_Date |-> c, Duration_Hours |-> h]
GoalsRow(d, t)   == [Department |-> d, Target_Man_Hours_YTD |-> t]

---------------------------------------------------------------------------
(* The reference date *)

TODAY == Date(2025, 10, 28)

\* TODAY.strftime('%Y-%m'): the year and the month, the day dropped.
StrfYM(date) == <<date.y, date.m>>

REPORT_MONTH_STR == StrfYM(TODAY)

---------------------------------------------------------------------------
(* Arithmetic helpers *)

RECURSIVE GCD(_, _)
GCD(a, b) == IF b = 0 THEN a ELSE GCD(b, a % b)

Abs(x) == IF x < 0 THEN 0 - x ELSE x
Sign(x) == IF x < 0 THEN 0 - 1 ELSE IF x > 0 THEN 1 ELSE 0

\* Float division y / t of two integer cells.  den = 0 marks a non-finite
\* result: num 0 is nan, num 1 is inf, num -1 is -inf.  A finite result is the
\* double nearest to the reduced fraction num / den, den positive; negzero
\* marks the double -0.0, the quotient of 0 by a negative number.
Divide(y, t) ==
    IF t = 0 THEN [num |-> Sign(y), den |-> 0, negzero |-> FALSE]
    ELSE LET g == GCD(Abs(y), Abs(t))
             s == Sign(t)
         IN  [num |-> (s * y) \div g, den |-> (s * t) \div g,
              negzero |-> (y = 0 /\ t < 0)]

RECURSIVE Pow2(_)
Pow2(n) == IF n = 0 THEN 1 ELSE 2 * Pow2(n - 1)

\* The exponent e of the double y / t: 2^e <= y / t < 2^(e+1), for y, t > 0.
RECURSIVE ExpUp(_, _, _)
ExpUp(y, t, e) == IF t * Pow2(e + 1) <= y THEN ExpUp(y, t, e + 1) ELSE e

RECURSIVE ExpDown(_, _, _)
ExpDown(y, t, j) == IF y * Pow2(j) < t THEN ExpDown(y, t, j + 1) ELSE 0 - j

Exponent(y, t) == IF y >= t THEN ExpUp(y, t, 0) ELSE ExpDown(y, t, 0)

\* (a * 2^k) mod m, four doublings at a time.
RECURSIVE ShiftMod(_, _, _)
ShiftMod(a, k, m) ==
    IF k = 0 THEN a % m
    ELSE IF k >= 4 THEN ShiftMod((16 * a) % m, k - 4, m)
    ELSE ShiftMod((2 * a) % m, k - 1, m)

\* The double (y / t) * 100 against the exact 100 * y / t, for y, t > 0: the
\* sign of the difference the two roundings leave (that of the quotient to a
\* 53-bit significand, then that of its product with 100), as an integer.
\* low holds the last 8 bits of the quotient's significand before rounding.
PercentError(y, t) ==
    LET e    == Exponent(y, t)
        a    == ShiftMod(y, 52 - e, 256 * t)
        r    == a % t
        low  == a \div t
        u    == IF 2 * r > t \/ (2 * r = t /\ low % 2 = 1) THEN 1 ELSE 0
        m    == (low + u) % 256
        long == IF e >= 0 - 7 THEN 100 * y >= Pow2(7 + e) * t
                ELSE 100 * y * Pow2(0 - 7 - e) >= t
        s    == IF long THEN 7 ELSE 6
        h    == (100 * m) % Pow2(s + 1)
        rho  == h % Pow2(s)
        odd  == h \div Pow2(s)
        u2   == IF 2 * rho > Pow2(s) \/ (2 * rho = Pow2(s) /\ odd = 1) THEN 1 ELSE 0
    IN  (u2 * Pow2(s) - rho) * t + 100 * (u * t - r)

\* '{:.1%}'.format(x): the double x times 100, as a double, printed with one
\* decimal, ties of that double to even, then '%'.  The text is its sign, its
\* digits as a count of tenths of a percent, and its suffix.  Where the exact
\* value lies halfway between two tenths, the rounding of the doubles decides.
PercentFormat(x) ==
    IF x.den = 0
    THEN <<(IF x.num < 0 THEN "-" ELSE ""), 0, (IF x.num = 0 THEN "nan%" ELSE "inf%")>>
    ELSE LET y == Abs(x.num)
             n == y * 1000
             q == n \div x.den
             r == n % x.den
             up == IF 2 * r # x.den THEN 2 * r > x.den
                   ELSE LET d == PercentError(y, x.den)
                        IN  d > 0 \/ (d = 0 /\ q % 2 = 1)
         IN  <<(IF x.num < 0 \/ x.negzero THEN "-" ELSE ""),
               (IF up THEN q + 1 ELSE q), "%">>

RECURSIVE SumSeq(_)
SumSeq(s) == IF s = << >> THEN 0 ELSE Head(s) + SumSeq(Tail(s))

---------------------------------------------------------------------------
(* TRANSFORM *)

\* pd.merge(df_log, df_roster[['Employee_ID','Department']], on='Employee_ID',
\* how='left'): every log row once per roster row of its employee, in log
\* order; a log row with no roster row once, with Department NaN.
WithDept(r, d) ==
    [Employee_ID |-> r.Employee_ID, Course_Date |-> r.Course_Date,
     Duration_Hours |-> r.Duration_Hours, Department |-> d]

RECURSIVE df_merged(_, _)
df_merged(df_log, df_roster) ==
    IF df_log = << >> THEN << >>
    ELSE LET r == Head(df_log)
             m == SelectSeq(df_roster, LAMBDA x : x.Employee_ID = r.Employee_ID)
             rows == IF m = << >> THEN << WithDept(r, NaN) >>
                     ELSE [i \in 1..Len(m) |-> WithDept(r, m[i].Department)]
         IN  rows \o df_merged(Tail(df_log), df_roster)

is_this_year(row)  == row.Course_Date.y = TODAY.y
is_this_month(row) == row.Course_Date.m = TODAY.m

\* Variant: the year filter left out of the YTD partition.
df_ytd_data_AllYears(merged) == merged

df_ytd_data(merged) == SelectSeq(merged, is_this_year)

\* Variant: the MTD partition filtered on the month alone.
df_mtd_data_AnyYear(merged) == SelectSeq(merged, is_this_month)

df_mtd_data(merged) ==
    SelectSeq(merged, LAMBDA row : is_this_year(row) /\ is_this_month(row))

\* df.groupby('Department')['Duration_Hours'].sum(): one entry per department
\* that has a row; rows whose Department is NaN belong to no group.
DurationsOf(df, d) ==
    LET rows == SelectSeq(df, LAMBDA row : row.Department = d)
    IN  [i \in 1..Len(rows) |-> rows[i].Duration_Hours]

GroupBySum(df) ==
    [d \in {df[i].Department : i \in 1..Len(df)} \ {NaN} |-> SumSeq(DurationsOf(df, d))]

ytd_hours(merged) == GroupBySum(df_ytd_data(merged))
mtd_hours(merged) == GroupBySum(df_mtd_data(merged))

\* DataFrame.fillna(0) on one cell.
FillNa(cell) == IF cell = NoVal THEN 0 ELSE cell[1]

Lookup(series, d) == IF d \in DOMAIN series THEN <<series[d]>> ELSE NoVal

\* pd.merge(ytd_hours, mtd_hours, on='Department', how='outer').fillna(0)
df_kpi_summary(ytd, mtd) ==
    [d \in (DOMAIN ytd) \cup (DOMAIN mtd) |->
        [YTD_Hours |-> FillNa(Lookup(ytd, d)), MTD_Hours |-> FillNa(Lookup(mtd, d))]]

\* Variant: how='inner', goals rows with no hours are lost.
GoalsJoin_Inner(df_goals, summary) ==
    LET kept == SelectSeq(df_goals, LAMBDA g : g.Department \in DOMAIN summary)
    IN  [i \in 1..Len(kept) |->
            [Department |-> kept[i].Department,
             Target_Man_Hours_YTD |-> kept[i].Target_Man_Hours_YTD,
             YTD_Hours |-> summary[kept[i].Department].YTD_Hours,
             MTD_Hours |-> summary[kept[i].Department].MTD_Hours]]

\* Variant: how='outer', departments with hours and no goals row are kept,
\* their missing target filled with 0.
GoalsJoin_Outer(df_goals, summary) ==
    LET left  == [i \in 1..Len(df_goals) |->
                    LET g == df_goals[i]
                        hit == g.Department \in DOMAIN summary
                    IN  [Department |-> g.Department,
                         Target_Man_Hours_YTD |-> g.Target_Man_Hours_YTD,
                         YTD_Hours |-> IF hit THEN summary[g.Department].YTD_Hours ELSE 0,
                         MTD_Hours |-> IF hit THEN summary[g.Department].MTD_Hours ELSE 0]]
        extra == SelectSeq(<<"Dept A", "Dept B">>,
                           LAMBDA d : /\ d \in DOMAIN summary
                                      /\ \A i \in 1..Len(df_goals) : df_goals[i].Department # d)
        right == [i \in 1..Len(extra) |->
                    [Department |-> extra[i],
                     Target_Man_Hours_YTD |-> 0,
                     YTD_Hours |-> summary[extra[i]].YTD_Hours,
                     MTD_Hours |-> summary[extra[i]].MTD_Hours]]
    IN  left \o right

\* pd.merge(df_goals, df_kpi_summary, on='Department', how='left').fillna(0):
\* the goals rows in goals order, each with the hours of its department.
GoalsJoin(df_goals, summary) ==
    [i \in 1..Len(df_goals) |->
        LET g == df_goals[i]
            hit == g.Department \in DOMAIN summary
        IN  [Department |-> g.Department,
             Target_Man_Hours_YTD |-> g.Target_Man_Hours_YTD,
             YTD_Hours |-> FillNa(IF hit THEN <<summary[g.Department].YTD_Hours>> ELSE NoVal),
             MTD_Hours |-> FillNa(IF hit THEN <<summary[g.Department].MTD_Hours>> ELSE NoVal)]]

\* Variant: the ratio taken from the MTD hours.
AddKpi_MtdRatio(row) ==
    [Department |-> row.Department,
     Target_Man_Hours_YTD |-> row.Target_Man_Hours_YTD,
     YTD_Hours |-> row.YTD_Hours,
     MTD_Hours |-> row.MTD_Hours,
     YTD_Achievement_Percent |-> Divide(row.MTD_Hours, row.Target_Man_Hours_YTD),
     Report_Month |-> REPORT_MONTH_STR]

\* The two derived columns of the final report.
AddKpi(row) ==
    [Department |-> row.Department,
     Target_Man_Hours_YTD |-> row.Target_Man_Hours_YTD,
     YTD_Hours |-> row.YTD_Hours,
     MTD_Hours |-> row.MTD_Hours,
     YTD_Achievement_Percent |-> Divide(row.YTD_Hours, row.Target_Man_Hours_YTD),
     Report_Month |-> REPORT_MONTH_STR]

\* process_report.main, TRANSFORM: steps 5 to 7.
df_kpi_report(df_roster, df_log, df_goals) ==
    LET merged  == df_merged(df_log, df_roster)
        summary == df_kpi_summary(ytd_hours(merged), mtd_hours(merged))
        joined  == GoalsJoin(df_goals, summary)
    IN  [i \in 1..Len(joined) |-> AddKpi(joined[i])]

\* dashboard.run_etl_pipeline: the same transformation, in memory.
run_etl_pipeline(df_roster, df_log, df_goals) ==
    LET merged  == df_merged(df_log, df_roster)
        summary == df_kpi_summary(ytd_hours(merged), mtd_hours(merged))
        joined  == GoalsJoin(df_goals, summary)
    IN  [i \in 1..Len(joined) |-> AddKpi(joined[i])]

\* df_excel: the report with the ratio formatted for the spreadsheet.
df_excel(df) ==
    [i \in 1..Len(df) |->
        [Department |-> df[i].Department,
         Target_Man_Hours_YTD |-> df[i].Target_Man_Hours_YTD,
         YTD_Hours |-> df[i].YTD_Hours,
         MTD_Hours |-> df[i].MTD_Hours,
         YTD_Achievement_Percent |-> PercentFormat(df[i].YTD_Achievement_Percent),
         Report_Month |-> df[i].Report_Month]]

---------------------------------------------------------------------------
(* Input tables.  Employee_ID is the key of the roster and Department the  *)
(* key of the goals table, so a table holds at most one row per key.  The  *)
(* log holds any rows; its tables are listed up to row order.              *)

EmployeeOrder   == <<"E1", "E2">>
DepartmentOrder == <<"Dept A", "Dept B">>

RosterOf(S, f) ==
    LET s == SelectSeq(EmployeeOrder, LAMBDA e : e \in S)
    IN  [i \in 1..Len(s) |-> RosterRow(s[i], f[s[i]])]

RosterTables ==
    UNION { { RosterOf(S, f) : f \in [S -> Departments] } : S \in SUBSET Employees }

GoalsOf(S, t) ==
    LET s == SelectSeq(DepartmentOrder, LAMBDA d : d \in S)
    IN  [i \in 1..Len(s) |-> GoalsRow(s[i], t[s[i]])]

GoalsTables ==
    UNION { { GoalsOf(S, t) : t \in [S -> Targets] } : S \in SUBSET Departments }

LogRowDomain ==
    { LogRow(e, c, h) : e \in Employees, c \in CourseDates, h \in Durations }

EmpNo(e) == CHOOSE i \in 1..Len(EmployeeOrder) : EmployeeOrder[i] = e
DayNo(c) == (c.y * 12 + c.m) * 31 + c.d

RowLeq(a, b) ==
    \/ EmpNo(a.Employee_ID) < EmpNo(b.Employee_ID)
    \/ /\ a.Employee_ID = b.Employee_ID
       /\ \/ DayNo(a.Course_Date) < DayNo(b.Course_Date)
          \/ /\ a.Course_Date = b.Course_Date
             /\ a.Duration_Hours <= b.Duration_Hours

LogTables ==
    UNION { { t \in [1..n -> LogRowDomain] :
                \A i \in 1..n : i < n => RowLeq(t[i], t[i + 1]) } : n \in 0..MaxLog }

BaseRoster == << RosterRow("E1", "Dept A"), RosterRow("E2", "Dept B") >>
BaseGoals  == << GoalsRow("Dept A", 4), GoalsRow("Dept B", 4) >>

\* Rows the training log grows by while the programs run.
NewRows ==
    { LogRow("E1", Date(2025, 10, 5), 2), LogRow("E2", Date(2025, 9, 10), 2) }

FileStates == {"ok", "absent", "unreadable"}
ReadOrder  == <<"roster", "log", "goals">>

---------------------------------------------------------------------------
(* Values of the process state *)

NotExited == << >>
NoCache   == << >>
NoMonths  == << >>
NoFrames  == << >>

AllOk == \A f \in FileNames : fileState[f] = "ok"

\* What pd.read_excel returns for a readable file.
Content(f) ==
    CASE f = "roster" -> roster
      [] f = "log"    -> log
      [] f = "goals"  -> goals

\* The file the next pd.read_excel call reads, after the tables in fr.
NextFile(fr) == ReadOrder[Len(fr) + 1]

\* The except block a failed pd.read_excel of f lands in.
ReadError(f) ==
    IF fileState[f] = "absent" THEN "file_not_found" ELSE "unexpected"

NotRunning == pc \in {"idle", "done", "failed"}

---------------------------------------------------------------------------
(* The environment: the input files change under the programs *)

LogAppend(row) ==
    /\ Len(log) < MaxLog
    /\ log' = Append(log, row)
    /\ UNCHANGED <<roster, goals, fileState>>
    /\ UNCHANGED batchVars
    /\ UNCHANGED dashVars

FileChange(f, s) ==
    /\ fileState[f] # s
    /\ fileState' = [fileState EXCEPT ![f] = s]
    /\ UNCHANGED <<roster, log, goals>>
    /\ UNCHANGED batchVars
    /\ UNCHANGED dashVars

---------------------------------------------------------------------------
(* process_report.py: one batch run *)

\* The process starts: TODAY, the paths, output_dir.mkdir(exist_ok=True).
StartRun ==
    /\ NotRunning
    /\ runs < MaxRuns
    /\ runs' = runs + 1
    /\ pc' = "reading"
    /\ frames' = NoFrames
    /\ report' = << >>
    /\ exitCode' = NotExited
    /\ errorMsg' = "none"
    /\ UNCHANGED <<excel, history>>
    /\ UNCHANGED envVars
    /\ UNCHANGED dashVars

\* The process starts and output_dir.mkdir raises (outputs exists and is no
\* directory): except Exception prints and calls sys.exit(1).
StartFail ==
    /\ NotRunning
    /\ runs < MaxRuns
    /\ runs' = runs + 1
    /\ pc' = "failed"
    /\ frames' = NoFrames
    /\ report' = << >>
    /\ exitCode' = <<1>>
    /\ errorMsg' = "unexpected"
    /\ UNCHANGED <<excel, history>>
    /\ UNCHANGED envVars
    /\ UNCHANGED dashVars

\* EXTRACT: the next of the three pd.read_excel calls returns its table.
ReadOk ==
    /\ pc = "reading"
    /\ fileState[NextFile(frames)] = "ok"
    /\ frames' = Append(frames, Content(NextFile(frames)))
    /\ pc' = IF Len(frames') = Len(ReadOrder) THEN "extracted" ELSE "reading"
    /\ UNCHANGED <<runs, report, excel, history, exitCode, errorMsg>>
    /\ UNCHANGED envVars
    /\ UNCHANGED dashVars

\* Variant: a failed read is swallowed and stands for an empty table.
ReadFail_Swallowed ==
    /\ pc = "reading"
    /\ fileState[NextFile(frames)] # "ok"
    /\ frames' = Append(frames, << >>)
    /\ pc' = IF Len(frames') = Len(ReadOrder) THEN "extracted" ELSE "reading"
    /\ UNCHANGED <<runs, report, excel, history, exitCode, errorMsg>>
    /\ UNCHANGED envVars
    /\ UNCHANGED dashVars

\* EXTRACT: the next pd.read_excel call raises; the except block of its
\* exception prints and calls sys.exit(1).
ReadFail ==
    /\ pc = "reading"
    /\ fileState[NextFile(frames)] # "ok"
    /\ pc' = "failed"
    /\ exitCode' = <<1>>
    /\ errorMsg' = ReadError(NextFile(frames))
    /\ UNCHANGED <<runs, frames, report, excel, history>>
    /\ UNCHANGED envVars
    /\ UNCHANGED dashVars

\* TRANSFORM: the report is built from the three tables read.
Transform ==
    /\ pc = "extracted"
    /\ report' = df_kpi_report(frames[1], frames[2], frames[3])
    /\ pc' = "transformed"
    /\ UNCHANGED <<runs, frames, excel, history, exitCode, errorMsg>>
    /\ UNCHANGED envVars
    /\ UNCHANGED dashVars

\* LOAD 8a: df_excel.to_excel(excel_path) writes, or replaces, the month's file.
LoadExcel ==
    /\ pc = "transformed"
    /\ excel' = [m \in (DOMAIN excel) \cup {REPORT_MONTH_STR} |->
                    IF m = REPORT_MONTH_STR THEN df_excel(report) ELSE excel[m]]
    /\ pc' = "excel_written"
    /\ UNCHANGED <<runs, frames, report, history, exitCode, errorMsg>>
    /\ UNCHANGED envVars
    /\ UNCHANGED dashVars

\* LOAD 8a raises: except Exception prints and calls sys.exit(1).
LoadExcelFail ==
    /\ pc = "transformed"
    /\ pc' = "failed"
    /\ exitCode' = <<1>>
    /\ errorMsg' = "unexpected"
    /\ UNCHANGED <<runs, frames, report, excel, history>>
    /\ UNCHANGED envVars
    /\ UNCHANGED dashVars

\* Variant: if_exists='replace', the table rebuilt from this run's rows.
LoadDb_Replace ==
    /\ pc = "excel_written"
    /\ history' = report
    /\ pc' = "done"
    /\ exitCode' = <<0>>
    /\ UNCHANGED <<runs, frames, report, excel, errorMsg>>
    /\ UNCHANGED envVars
    /\ UNCHANGED dashVars

\* Variant: the database step placed ahead of the spreadsheet step.
LoadDb_BeforeExcel ==
    /\ pc = "transformed"
    /\ history' = history \o report
    /\ pc' = "done"
    /\ exitCode' = <<0>>
    /\ UNCHANGED <<runs, frames, report, excel, errorMsg>>
    /\ UNCHANGED envVars
    /\ UNCHANGED dashVars

\* LOAD 8b: df_kpi_report.to_sql('kpi_history', if_exists='append'); the
\* process then ends with status 0.
LoadDb ==
    /\ pc = "excel_written"
    /\ history' = history \o report
    /\ pc' = "done"
    /\ exitCode' = <<0>>
    /\ UNCHANGED <<runs, frames, report, excel, errorMsg>>
    /\ UNCHANGED envVars
    /\ UNCHANGED dashVars

\* LOAD 8b raises: except Exception prints and calls sys.exit(1).
LoadDbFail ==
    /\ pc = "excel_written"
    /\ pc' = "failed"
    /\ exitCode' = <<1>>
    /\ errorMsg' = "unexpected"
    /\ UNCHANGED <<runs, frames, report, excel, history>>
    /\ UNCHANGED envVars
    /\ UNCHANGED dashVars

---------------------------------------------------------------------------
(* dashboard.py: one render of the page per script run *)

Blank == [status |-> "blank", selected_month |-> NoMonths,
          total_ytd_hours |-> 0, total_mtd_hours |-> 0, rows |-> << >>]

\* The script died with the exception run_etl_pipeline raised.
Raised == [status |-> "exception", selected_month |-> NoMonths,
           total_ytd_hours |-> 0, total_mtd_hours |-> 0, rows |-> << >>]

\* df.empty: st.error("Data loading failed...") and st.stop().
LoadingFailed == [status |-> "error", selected_month |-> NoMonths,
                  total_ytd_hours |-> 0, total_mtd_hours |-> 0, rows |-> << >>]

\* df['Report_Month'].max() of a non-empty report.
latest_month(df) ==
    CHOOSE m \in {df[i].Report_Month : i \in 1..Len(df)} :
        \A i \in 1..Len(df) :
            \/ df[i].Report_Month[1] < m[1]
            \/ df[i].Report_Month[1] = m[1] /\ df[i].Report_Month[2] <= m[2]

\* dashboard.main from the empty check on, the month selector at its default.
Page(df) ==
    IF df = << >> THEN LoadingFailed
    ELSE LET selected_month == latest_month(df)
             df_filtered == SelectSeq(df, LAMBDA r : r.Report_Month = selected_month)
         IN  [status |-> "page",
              selected_month |-> selected_month,
              total_ytd_hours |-> SumSeq([i \in 1..Len(df_filtered) |-> df_filtered[i].YTD_Hours]),
              total_mtd_hours |-> SumSeq([i \in 1..Len(df_filtered) |-> df_filtered[i].MTD_Hours]),
              rows |-> df_excel(df_filtered)]

\* A render whose run_etl_pipeline() call finds no cache entry: the body starts.
DashRenderStart ==
    /\ dpc = "idle"
    /\ cache = NoCache
    /\ dpc' = "reading"
    /\ dframes' = NoFrames
    /\ UNCHANGED <<cache, shown, etlRuns, stale>>
    /\ UNCHANGED envVars
    /\ UNCHANGED batchVars

\* The next of the body's three pd.read_excel calls returns its table.
DashReadOk ==
    /\ dpc = "reading"
    /\ fileState[NextFile(dframes)] = "ok"
    /\ dframes' = Append(dframes, Content(NextFile(dframes)))
    /\ dpc' = IF Len(dframes') = Len(ReadOrder) THEN "extracted" ELSE "reading"
    /\ UNCHANGED <<cache, shown, etlRuns, stale>>
    /\ UNCHANGED envVars
    /\ UNCHANGED batchVars

\* The next pd.read_excel call raises: the script run dies with the
\* exception and nothing is stored.
DashReadRaise ==
    /\ dpc = "reading"
    /\ fileState[NextFile(dframes)] # "ok"
    /\ dpc' = "idle"
    /\ dframes' = NoFrames
    /\ shown' = Raised
    /\ stale' = FALSE
    /\ UNCHANGED <<cache, etlRuns>>
    /\ UNCHANGED envVars
    /\ UNCHANGED batchVars

\* The body builds the report from the three tables read and returns it: the
\* result is stored and the page is drawn from it.
DashRenderCompute ==
    /\ dpc = "extracted"
    /\ cache' = << run_etl_pipeline(dframes[1], dframes[2], dframes[3]) >>
    /\ etlRuns' = etlRuns + 1
    /\ shown' = Page(cache'[1])
    /\ stale' = FALSE
    /\ dpc' = "idle"
    /\ dframes' = NoFrames
    /\ UNCHANGED envVars
    /\ UNCHANGED batchVars

\* Variant: no cache lookup, the pipeline runs on every render.
DashRenderCached_Recompute ==
    /\ dpc = "idle"
    /\ cache # NoCache
    /\ AllOk
    /\ cache' = << run_etl_pipeline(roster, log, goals) >>
    /\ etlRuns' = etlRuns + 1
    /\ shown' = Page(cache'[1])
    /\ stale' = FALSE
    /\ UNCHANGED <<dpc, dframes>>
    /\ UNCHANGED envVars
    /\ UNCHANGED batchVars

\* A render whose run_etl_pipeline() call is answered from the cache.
DashRenderCached ==
    /\ dpc = "idle"
    /\ cache # NoCache
    /\ shown' = Page(cache[1])
    /\ stale' = (AllOk /\ run_etl_pipeline(roster, log, goals) # cache[1])
    /\ UNCHANGED <<dpc, dframes, cache, etlRuns>>
    /\ UNCHANGED envVars
    /\ UNCHANGED batchVars

\* The Streamlit server process ends and a new one starts.
DashRestart ==
    /\ dpc' = "idle"
    /\ dframes' = NoFrames
    /\ cache' = NoCache
    /\ shown' = Blank
    /\ etlRuns' = 0
    /\ stale' = FALSE
    /\ UNCHANGED envVars
    /\ UNCHANGED batchVars

---------------------------------------------------------------------------
(* Specifications *)

InitProcesses ==
    /\ pc = "idle"
    /\ runs = 0
    /\ frames = NoFrames
    /\ report = << >>
    /\ excel = << >>
    /\ history = << >>
    /\ exitCode = NotExited
    /\ errorMsg = "none"
    /\ dpc = "idle"
    /\ dframes = NoFrames
    /\ cache = NoCache
    /\ shown = Blank
    /\ etlRuns = 0
    /\ stale = FALSE

\* The batch program, run again and again while the input files change.
Init ==
    /\ roster = BaseRoster
    /\ goals = BaseGoals
    /\ log = << >>
    /\ fileState = [f \in FileNames |-> "ok"]
    /\ InitProcesses

Next ==
    \/ \E row \in NewRows : LogAppend(row)
    \/ \E f \in FileNames, s \in FileStates : FileChange(f, s)
    \/ StartRun
    \/ StartFail
    \/ ReadOk
    \/ ReadFail
    \/ Transform
    \/ LoadExcel
    \/ LoadExcelFail
    \/ LoadDb
    \/ LoadDbFail

Spec == Init /\ [][Next]_vars

\* The dashboard process, rendered again and again while the input files change.
InitDashboard ==
    /\ roster = BaseRoster
    /\ goals \in {BaseGoals, << >>}
    /\ log = << >>
    /\ fileState = [f \in FileNames |-> "ok"]
    /\ InitProcesses

NextDashboard ==
    \/ \E row \in NewRows : LogAppend(row)
    \/ \E f \in FileNames, s \in FileStates : FileChange(f, s)
    \/ DashRenderStart
    \/ DashReadOk
    \/ DashReadRaise
    \/ DashRenderCompute
    \/ DashRenderCached
    \/ DashRestart

SpecDashboard == InitDashboard /\ [][NextDashboard]_vars

\* The transformation on every input set, the files unchanged and readable:
\* one batch run up to its report, then one first render of the dashboard.
\* The two programs share nothing but the input files.
InitETL ==
    /\ roster \in RosterTables
    /\ goals \in GoalsTables
    /\ log \in LogTables
    /\ fileState = [f \in FileNames |-> "ok"]
    /\ InitProcesses

BatchETL ==
    \/ StartRun
    \/ ReadOk
    \/ Transform

RenderETL ==
    \/ DashRenderStart
    \/ DashReadOk
    \/ DashRenderCompute

NextETL ==
    \/ BatchETL
    \/ pc = "transformed" /\ RenderETL

SpecETL == InitETL /\ [][NextETL]_vars

---------------------------------------------------------------------------
(* Quantities of the claims, computed from the input files directly *)

\* The reports the programs have produced from the current input files.
Produced ==
    (IF pc = "transformed" THEN {report} ELSE {})
        \cup (IF cache # NoCache THEN {cache[1]} ELSE {})

RECURSIVE Total(_, _)
Total(f, S) ==
    IF S = {} THEN 0
    ELSE LET i == CHOOSE j \in S : TRUE IN f[i] + Total(f, S \ {i})

LogHours == [i \in 1..Len(log) |-> log[i].Duration_Hours]
YtdColumn(df) == [k \in 1..Len(df) |-> df[k].YTD_Hours]

GoalsDepartments == { goals[k].Department : k \in 1..Len(goals) }
DepartmentsOf(e) ==
    { roster[j].Department : j \in { n \in 1..Len(roster) : roster[n].Employee_ID = e } }

\* Log rows of department d, through the roster.
RecordsOf(d) == { i \in 1..Len(log) : d \in DepartmentsOf(log[i].Employee_ID) }

InReferenceYear(i)  == log[i].Course_Date.y = TODAY.y
InReferenceMonth(i) == InReferenceYear(i) /\ log[i].Course_Date.m = TODAY.m
ThroughToday(i) ==
    \/ log[i].Course_Date.m < TODAY.m
    \/ log[i].Course_Date.m = TODAY.m /\ log[i].Course_Date.d <= TODAY.d

RowsOf(df, d) == { k \in 1..Len(df) : df[k].Department = d }
CountIn(s, x) == Cardinality({ i \in 1..Len(s) : s[i] = x })

---------------------------------------------------------------------------
(* Claims on the transformation, under SpecETL *)

\* C1: every department of the goals table appears exactly once in the report
\* of a run, and one with no training records has YTD hours 0 and MTD hours 0.
C1_GoalsDepartmentsOnce ==
    \A df \in Produced : \A d \in GoalsDepartments :
        /\ Cardinality(RowsOf(df, d)) = 1
        /\ RecordsOf(d) = {} =>
              \A k \in RowsOf(df, d) : df[k].YTD_Hours = 0 /\ df[k].MTD_Hours = 0

C1_Witness ==
    /\ pc = "transformed"
    /\ cache # NoCache
    /\ \E d \in GoalsDepartments : RecordsOf(d) = {}
    /\ \E d \in GoalsDepartments : \E i \in RecordsOf(d) : InReferenceYear(i)

\* C2 as stated: the YTD hours of the report add up to the hours of the
\* reference year's records, less only those of employees not in the roster.
C2_AllMatchedHours ==
    \A df \in Produced :
        Total(YtdColumn(df), 1..Len(df)) =
            Total(LogHours, { i \in 1..Len(log) :
                                /\ InReferenceYear(i)
                                /\ DepartmentsOf(log[i].Employee_ID) # {} })

\* C2 amended: the YTD hours of the report add up to the hours of the
\* reference year's records, less those of employees not in the roster and
\* those of departments with no row in the goals table.
C2_MatchedHoursOfGoalsDepartments ==
    \A df \in Produced :
        Total(YtdColumn(df), 1..Len(df)) =
            Total(LogHours, { i \in 1..Len(log) :
                                /\ InReferenceYear(i)
                                /\ DepartmentsOf(log[i].Employee_ID) \cap GoalsDepartments # {} })

C2_Witness ==
    /\ pc = "transformed"
    /\ \E i \in 1..Len(log) : InReferenceYear(i) /\ DepartmentsOf(log[i].Employee_ID) = {}
    /\ \E i \in 1..Len(log) :
          /\ InReferenceYear(i)
          /\ DepartmentsOf(log[i].Employee_ID) \cap GoalsDepartments # {}
    /\ Total(YtdColumn(report), 1..Len(report)) > 0

\* C3: every record counted toward MTD hours is counted toward YTD hours, and
\* when no duration is negative every row of the report has MTD <= YTD.
C3_MtdWithinYtd ==
    /\ LET merged == df_merged(log, roster)
           ytd == df_ytd_data(merged)
           mtd == df_mtd_data(merged)
       IN  \A i \in 1..Len(mtd) : CountIn(mtd, mtd[i]) <= CountIn(ytd, mtd[i])
    /\ (\A i \in 1..Len(log) : log[i].Duration_Hours >= 0) =>
          \A df \in Produced : \A k \in 1..Len(df) : df[k].MTD_Hours <= df[k].YTD_Hours

C3_Witness ==
    /\ pc = "transformed"
    /\ \A i \in 1..Len(log) : log[i].Duration_Hours >= 0
    /\ \E i \in 1..Len(log) : ~InReferenceYear(i) /\ log[i].Course_Date.m = TODAY.m
    /\ \E k \in 1..Len(report) : report[k].MTD_Hours > 0

\* C6: in every row with a target above 0 the achievement ratio is the row's
\* YTD hours divided by its target; a goals department with no training
\* records has YTD 0 and MTD 0, and ratio 0 under such a target.
C6_RatioIsYtdOverTarget ==
    \A df \in Produced : \A k \in 1..Len(df) :
        LET row == df[k]
            ratio == row.YTD_Achievement_Percent
        IN  /\ row.Target_Man_Hours_YTD > 0 =>
                  /\ ratio.den > 0
                  /\ ratio.num * row.Target_Man_Hours_YTD = row.YTD_Hours * ratio.den
            /\ RecordsOf(row.Department) = {} =>
                  /\ row.YTD_Hours = 0
                  /\ row.MTD_Hours = 0
                  /\ row.Target_Man_Hours_YTD > 0 => ratio.num = 0 /\ ratio.den > 0

C6_Witness ==
    /\ pc = "transformed"
    /\ cache # NoCache
    /\ \E k \in 1..Len(report) :
          /\ report[k].Target_Man_Hours_YTD > 0
          /\ report[k].YTD_Hours > report[k].MTD_Hours
          /\ report[k].MTD_Hours > 0
    /\ \E k \in 1..Len(report) :
          /\ report[k].Target_Man_Hours_YTD > 0
          /\ RecordsOf(report[k].Department) = {}

\* C7: YTD hours of a department are the hours of its records dated from the
\* start of the reference year through the reference date, and MTD hours those
\* of its records in the reference month.
C7_YtdThroughReferenceDate ==
    \A df \in Produced : \A k \in 1..Len(df) :
        /\ df[k].YTD_Hours =
              Total(LogHours, { i \in RecordsOf(df[k].Department) :
                                  InReferenceYear(i) /\ ThroughToday(i) })
        /\ df[k].MTD_Hours =
              Total(LogHours, { i \in RecordsOf(df[k].Department) : InReferenceMonth(i) })

\* C8: the departments of the report are exactly the departments of the goals
\* table; a department with records and no goals row is not in the report.
C8_OnlyGoalsDepartments ==
    \A df \in Produced :
        { df[k].Department : k \in 1..Len(df) } = GoalsDepartments

C8_Witness ==
    /\ pc = "transformed"
    /\ report # << >>
    /\ \E d \in Departments \ GoalsDepartments :
          \E i \in RecordsOf(d) : InReferenceYear(i)

---------------------------------------------------------------------------
(* Claims on the batch program, under Spec *)

MonthRows(h, d) ==
    { i \in 1..Len(h) : h[i].Department = d /\ h[i].Report_Month = REPORT_MONTH_STR }

\* C4: the history table is append-only.  No step changes or removes a stored
\* row; the table changes only when a run completes, by exactly the rows of
\* that run's report behind the stored ones, so each completed run adds one
\* row per goals department for the month, duplicates of earlier rows included.
C4_HistoryAppendOnly ==
    [][ /\ Len(history') >= Len(history)
        /\ SubSeq(history', 1, Len(history)) = history
        /\ history' # history => pc = "excel_written" /\ pc' = "done"
        /\ (pc = "excel_written" /\ pc' = "done") =>
              /\ SubSeq(history', Len(history) + 1, Len(history')) = report
              /\ \A d \in GoalsDepartments :
                    Cardinality(MonthRows(history', d)) =
                        Cardinality(MonthRows(history, d)) + 1 ]_vars

C4_Witness ==
    /\ pc = "done"
    /\ \A d \in GoalsDepartments : Cardinality(MonthRows(history, d)) = 2
    /\ \E i, j \in 1..Len(history) : i < j /\ history[i] = history[j]
    /\ \E i, j \in 1..Len(history) :
          /\ i < j
          /\ history[i].Department = history[j].Department
          /\ history[i] # history[j]

\* C5: a run whose read of an input file finds it absent or unreadable
\* reports the error and ends with exit status 1, in the file-not-found block
\* for an absent file; no spreadsheet is written and no history row appended
\* before the report exists nor once a run has failed.
C5_FailedReadWritesNothing ==
    [][ /\ ( /\ pc = "reading"
             /\ fileState[NextFile(frames)] # "ok"
             /\ batchVars' # batchVars ) =>
              /\ pc' = "failed"
              /\ exitCode' = <<1>>
              /\ errorMsg' \in {"file_not_found", "unexpected"}
              /\ errorMsg' = "file_not_found" <=> fileState[NextFile(frames)] = "absent"
        /\ pc \in {"idle", "reading", "extracted", "failed"} =>
              excel' = excel /\ history' = history
        /\ pc' = "failed" => exitCode' = <<1>> /\ errorMsg' # "none" ]_vars

C5_Witness ==
    /\ pc = "failed"
    /\ exitCode = <<1>>
    /\ errorMsg = "file_not_found"
    /\ frames = << roster >>
    /\ fileState["log"] = "absent"
    /\ runs = 2
    /\ Len(history) = Len(goals)
    /\ REPORT_MONTH_STR \in DOMAIN excel

\* C10: history rows of a report month exist only if the spreadsheet of that
\* month has been written.
C10_HistoryOnlyAfterSpreadsheet ==
    \A i \in 1..Len(history) : history[i].Report_Month \in DOMAIN excel

C10_Witness ==
    /\ pc = "done"
    /\ history # << >>
    /\ REPORT_MONTH_STR \in DOMAIN excel

\* The converse of C10 fails: a run that failed in the database step has left
\* the month's spreadsheet and no history row.
C10_SpreadsheetWithoutHistory ==
    /\ pc = "failed"
    /\ REPORT_MONTH_STR \in DOMAIN excel
    /\ history = << >>

---------------------------------------------------------------------------
(* Claims on the dashboard, under SpecDashboard *)

\* C9: in one process lifetime run_etl_pipeline's body completes at most once;
\* once its result is cached, every render until the restart displays that
\* same report, whatever has become of the input files.
C9_ComputedOncePerProcess ==
    /\ [](etlRuns <= 1)
    /\ [](cache # NoCache => shown = Page(cache[1]))
    /\ [][ cache # NoCache => (DashRestart \/ (cache' = cache /\ etlRuns' = etlRuns)) ]_vars

C9_Witness ==
    /\ stale
    /\ etlRuns = 1
    /\ shown = Page(cache[1])
    /\ shown # Page(run_etl_pipeline(roster, log, goals))

============================================================================
